---- MODULE Spec2Model ----
(***************************************************************************)
(* Model of two components of the federated query layer:                   *)
(*   - the API-backed table translator AnyTable built by                   *)
(*     create_table_class (openbb_tables.py), and                          *)
(*   - the backend adapter IntegrationDataNode (integration_datanode.py).  *)
(* Each public operation is one action; the record it leaves behind        *)
(* (sel for the translator, ad for the adapter) is what its caller and its *)
(* collaborators observed of the call.                                     *)
(***************************************************************************)
EXTENDS Integers, Sequences, FiniteSets, TLC

VARIABLES
    response_columns,   \* the list closed over by AnyTable (get_columns returns it)
    sel,                \* the select call in progress / just finished
    tbl,                \* the backend table behind the adapter's connector
    ad                  \* the adapter call just finished

vars == <<response_columns, sel, tbl, ad>>

---------------------------------------------------------------------------
(* Bounds of the model *)

MaxConds == 2       \* conditions in a WHERE clause
MaxTargets == 3     \* entries of a SELECT target list
MaxRows == 3        \* rows of a result set handed to create_table
MaxStored == 4      \* rows the backend table holds before the calls stop adding

---------------------------------------------------------------------------
(* Generic helpers *)

Range(s) == {s[i] : i \in 1..Len(s)}

InSeq(x, s) == \E i \in 1..Len(s) : s[i] = x

\* Python dict assignment d[k] = v on a dict modelled as a function
DictSet(d, k, v) == [x \in (DOMAIN d) \cup {k} |-> IF x = k THEN v ELSE d[x]]

EmptyDict == [x \in {} |-> 0]

\* the sequences of at most n entries drawn from pool
SeqsUpTo(pool, n) == UNION {[1..k -> pool] : k \in 0..n}

\* t occurs in s as a contiguous run
HasRun(s, t) ==
    \E i \in 0..(Len(s) - Len(t)) : \A j \in 1..Len(t) : s[i + j] = t[j]

---------------------------------------------------------------------------
(* Literal values of the query language and of the remote call             *)

NoneV == [k |-> "none"]
Str(s) == [k |-> "str", s |-> s]
BoolV(b) == [k |-> "bool", b |-> b]
IntV(n) == [k |-> "int", n |-> n]
\* a date literal 'YYYY-MM-DD HH:00:00' as written in the query
DateLit(y, m, d, h) == [k |-> "datelit", ymdh |-> <<y, m, d, h>>]
\* the text 'YYYY-MM-DD' produced by strftime('%Y-%m-%d')
DateStr(y, m, d) == [k |-> "datestr", ymd |-> <<y, m, d>>]

---------------------------------------------------------------------------
(* Calendar arithmetic: datetime values are hours since 2022-01-01 00:00   *)

IsLeap(y) == (y % 4 = 0 /\ y % 100 # 0) \/ y % 400 = 0

DaysInMonth(y, m) ==
    IF m = 2 THEN (IF IsLeap(y) THEN 29 ELSE 28)
    ELSE IF m \in {4, 6, 9, 11} THEN 30 ELSE 31

DaysInYear(y) == IF IsLeap(y) THEN 366 ELSE 365

RECURSIVE DaysBeforeYear(_)
DaysBeforeYear(y) ==
    IF y <= 2022 THEN 0 ELSE DaysBeforeYear(y - 1) + DaysInYear(y - 1)

RECURSIVE DaysBeforeMonth(_, _)
DaysBeforeMonth(y, m) ==
    IF m <= 1 THEN 0 ELSE DaysBeforeMonth(y, m - 1) + DaysInMonth(y, m - 1)

ToOrdinal(y, m, d) == DaysBeforeYear(y) + DaysBeforeMonth(y, m) + (d - 1)

RECURSIVE YearOf(_, _)
YearOf(n, y) == IF n < DaysInYear(y) THEN <<y, n>> ELSE YearOf(n - DaysInYear(y), y + 1)

RECURSIVE MonthOf(_, _, _)
MonthOf(n, y, m) ==
    IF n < DaysInMonth(y, m) THEN <<m, n>> ELSE MonthOf(n - DaysInMonth(y, m), y, m + 1)

FromOrdinal(n) ==
    LET yn == YearOf(n, 2022)
        mn == MonthOf(yn[2], yn[1], 1)
    IN  <<yn[1], mn[1], mn[2] + 1>>

\* parse_local_date(arg2): a datetime, or a ValueError for text that is no date
ParseLocalDate(v) ==
    IF v.k = "datelit"
    THEN [ok |-> TRUE,
          t |-> ToOrdinal(v.ymdh[1], v.ymdh[2], v.ymdh[3]) * 24 + v.ymdh[4]]
    ELSE [ok |-> FALSE, t |-> 0]

\* pd.Timedelta(interval), in hours
Timedelta(v) ==
    IF v = Str("1d") THEN [ok |-> TRUE, h |-> 24]
    ELSE IF v = Str("2d") THEN [ok |-> TRUE, h |-> 48]
    ELSE IF v = Str("12h") THEN [ok |-> TRUE, h |-> 12]
    ELSE [ok |-> FALSE, h |-> 0]

\* date.strftime('%Y-%m-%d'): the calendar day of the instant, time of day dropped
Strftime(t) ==
    LET ymd == FromOrdinal(t \div 24)
    IN  DateStr(ymd[1], ymd[2], ymd[3])

---------------------------------------------------------------------------
(* The descriptor create_table_class is called with: a price-history       *)
(* function with one required parameter and a time-pushdown-enabled field  *)

\* params_metadata['fields'], in declaration order
ParamsMetadata ==
    << [name |-> "symbol",     required |-> TRUE,  annotation |-> "str"],
       [name |-> "start_date", required |-> FALSE, annotation |-> "date"],
       [name |-> "end_date",   required |-> FALSE, annotation |-> "date"],
       [name |-> "interval",   required |-> FALSE, annotation |-> "str"],
       [name |-> "limit",      required |-> FALSE, annotation |-> "int"],
       [name |-> "provider",   required |-> FALSE, annotation |-> "str"] >>

\* response_metadata['fields'], in declaration order
ResponseMetadata ==
    << [name |-> "date",  annotation |-> "datetime"],
       [name |-> "close", annotation |-> "float"] >>

\* the provider the table class is built with
provider == Str("fmp")

ParamNames == {ParamsMetadata[i].name : i \in 1..Len(ParamsMetadata)}

ResponseNames == {ResponseMetadata[i].name : i \in 1..Len(ResponseMetadata)}

\* response_metadata['fields'][arg1].annotation
Annotation(name) ==
    ResponseMetadata[CHOOSE i \in 1..Len(ResponseMetadata) :
                         ResponseMetadata[i].name = name].annotation

\* mandatory_fields: the names of the required parameters, in declaration order
mandatory_fields ==
    LET req == SelectSeq(ParamsMetadata, LAMBDA f : f.required)
    IN  [i \in 1..Len(req) |-> req[i].name]

\* response_columns as built at construction
InitResponseColumns == [i \in 1..Len(ResponseMetadata) |-> ResponseMetadata[i].name]

\* one line of the generated reference: "* name[ (optional)]: annotation"
DocLine(f) ==
    <<"*", f.name, IF f.required THEN "required" ELSE "(optional)", f.annotation>>

RECURSIVE DocLines(_)
DocLines(fields) ==
    IF fields = <<>> THEN <<>> ELSE DocLine(Head(fields)) \o DocLines(Tail(fields))

\* the "Docstring:" text built from params_metadata, with the closing reference
Docstring == <<"Docstring:">> \o DocLines(ParamsMetadata)
                 \o <<"For more information check", "func_docs">>

---------------------------------------------------------------------------
(* Exceptions: a class and a message, the message a sequence of text parts  *)

Exc(type, msg) == [type |-> type, msg |-> msg]

NoExc == Exc("none", <<>>)

\* substring test on a message
Contains(msg, part) == InSeq(part, msg)

---------------------------------------------------------------------------
(* select, lines 69-115: conditions to remote parameters                   *)

\* a Condition Triple; the disjunction sentinel has no operands
Cond(op, arg1, arg2) == [op |-> op, arg1 |-> arg1, arg2 |-> arg2]

OrCond == Cond("or", "", NoneV)

\* _get_params_from_conditions: every "=" condition, the last one of a key winning
RECURSIVE GetParamsFromConditions(_, _)
GetParamsFromConditions(conditions, params) ==
    IF conditions = <<>> THEN params
    ELSE LET c == Head(conditions)
         IN  GetParamsFromConditions(
                 Tail(conditions),
                 IF c.op = "=" THEN DictSet(params, c.arg1, c.arg2) ELSE params)

\* dict.get(key, default)
DictGet(d, key, default) == IF key \in DOMAIN d THEN d[key] ELSE default

\* Python truthiness of a literal
Truthy(v) ==
    CASE v.k = "none" -> FALSE
      [] v.k = "bool" -> v.b
      [] v.k = "str"  -> v.s # ""
      [] v.k = "int"  -> v.n # 0
      [] OTHER        -> TRUE

\* the same branch with the inclusive bounds left at the literal's date
TimeRangeParamsUnshifted(params, op, arg1, date, delta) ==
    CASE op \in {">", ">="} -> DictSet(params, "start_" \o arg1, Strftime(date))
      [] op \in {"<", "<="} -> DictSet(params, "end_" \o arg1, Strftime(date))
      [] op = "="  ->
            DictSet(DictSet(params, "start_" \o arg1, Strftime(date - delta)),
                    "end_" \o arg1, Strftime(date))
      [] OTHER     -> params

\* the parameters the time-range branch sets for one comparison (lines 94-108)
TimeRangeParams(params, op, arg1, date, delta) ==
    CASE op = ">"  -> DictSet(params, "start_" \o arg1, Strftime(date))
      [] op = "<"  -> DictSet(params, "end_" \o arg1, Strftime(date))
      [] op = ">=" -> DictSet(params, "start_" \o arg1, Strftime(date - delta))
      [] op = "<=" -> DictSet(params, "end_" \o arg1, Strftime(date + delta))
      [] op = "="  ->
            \* date is rebound by the subtraction before the addition
            LET d1 == date - delta
                d2 == d1 + delta
            IN  DictSet(DictSet(params, "start_" \o arg1, Strftime(d1)),
                        "end_" \o arg1, Strftime(d2))
      [] OTHER     -> params

\* whether a comparison on this operator needs pd.Timedelta(interval)
UsesInterval(op) == op \in {">=", "<=", "="}

\* the state the loop over the conditions carries
LoopInit ==
    [params            |-> [x \in {"provider"} |-> provider],
     mandatory_args_set |-> [f \in Range(mandatory_fields) |-> FALSE],
     columns_to_add    |-> <<>>,
     filters           |-> <<>>,
     exc               |-> NoExc]

\* the same iteration without the check for the disjunction sentinel
LoopBodyNoOrCheck(st, c, arg_params, columns) ==
    LET op == c.op
        arg1 == c.arg1
        arg2 == c.arg2
        strict_filter == DictGet(arg_params, "strict_filter", BoolV(FALSE))
        marked == IF arg1 \in Range(mandatory_fields)
                  THEN [st EXCEPT !.mandatory_args_set[arg1] = TRUE]
                  ELSE st
        kept == [marked EXCEPT !.filters = Append(@, c)]
    IN  IF ("start_" \o arg1) \in ParamNames /\ InSeq(arg1, columns)
                    /\ arg2 # NoneV
        THEN IF arg1 \notin ResponseNames
             THEN [marked EXCEPT !.exc = Exc("KeyError", <<arg1>>)]
             ELSE IF Annotation(arg1) = "datetime"
             THEN LET date == ParseLocalDate(arg2)
                      interval == DictGet(arg_params, "interval", Str("1d"))
                      delta == Timedelta(interval)
                  IN  IF ~date.ok
                      THEN [marked EXCEPT !.exc =
                                Exc("ValueError", <<"Can't parse date">>)]
                      ELSE IF UsesInterval(op) /\ ~delta.ok
                      THEN [marked EXCEPT !.exc =
                                Exc("ValueError", <<"invalid unit abbreviation">>)]
                      ELSE [kept EXCEPT !.params =
                                TimeRangeParams(@, op, arg1, date.t, delta.h)]
             ELSE kept
        ELSE IF (arg1 \in ParamNames \/ ~Truthy(strict_filter)) /\ op = "="
        THEN [kept EXCEPT !.params = DictSet(@, arg1, arg2),
                          !.columns_to_add =
                              IF InSeq(arg1, @) THEN @ ELSE Append(@, arg1)]
        ELSE kept

\* one iteration of the loop at lines 81-115
LoopBody(st, c, arg_params, columns) ==
    LET op == c.op
        arg1 == c.arg1
        arg2 == c.arg2
        strict_filter == DictGet(arg_params, "strict_filter", BoolV(FALSE))
        marked == IF arg1 \in Range(mandatory_fields)
                  THEN [st EXCEPT !.mandatory_args_set[arg1] = TRUE]
                  ELSE st
        kept == [marked EXCEPT !.filters = Append(@, c)]
    IN  IF op = "or"
        THEN [st EXCEPT !.exc = Exc("NotImplementedError", <<"OR is not supported">>)]
        ELSE IF ("start_" \o arg1) \in ParamNames /\ InSeq(arg1, columns)
                    /\ arg2 # NoneV
        THEN IF arg1 \notin ResponseNames
             THEN [marked EXCEPT !.exc = Exc("KeyError", <<arg1>>)]
             ELSE IF Annotation(arg1) = "datetime"
             THEN LET date == ParseLocalDate(arg2)
                      interval == DictGet(arg_params, "interval", Str("1d"))
                      delta == Timedelta(interval)
                  IN  IF ~date.ok
                      THEN [marked EXCEPT !.exc =
                                Exc("ValueError", <<"Can't parse date">>)]
                      ELSE IF UsesInterval(op) /\ ~delta.ok
                      THEN [marked EXCEPT !.exc =
                                Exc("ValueError", <<"invalid unit abbreviation">>)]
                      ELSE [kept EXCEPT !.params =
                                TimeRangeParams(@, op, arg1, date.t, delta.h)]
             ELSE kept
        ELSE IF (arg1 \in ParamNames \/ ~Truthy(strict_filter)) /\ op = "="
        THEN [kept EXCEPT !.params = DictSet(@, arg1, arg2),
                          !.columns_to_add =
                              IF InSeq(arg1, @) THEN @ ELSE Append(@, arg1)]
        ELSE kept

\* the loop at lines 81-115, stopping at the first exception
RECURSIVE ConditionsLoop(_, _, _, _)
ConditionsLoop(st, conditions, arg_params, columns) ==
    IF conditions = <<>> \/ st.exc # NoExc THEN st
    ELSE ConditionsLoop(LoopBody(st, Head(conditions), arg_params, columns),
                        Tail(conditions), arg_params, columns)

\* the names of the required parameters no condition mentioned (line 118)
MissingArgs(mandatory_args_set) ==
    SelectSeq(mandatory_fields, LAMBDA k : ~mandatory_args_set[k])

\* the error of lines 117-133
MissingArgsError(mandatory_args_set) ==
    Exc("NotImplementedError",
        <<"You must specify the following arguments in the WHERE statement:">>
            \o MissingArgs(mandatory_args_set) \o Docstring)

---------------------------------------------------------------------------
(* Data frames: the column labels, the number of rows, and the columns      *)
(* that hold one constant value in every row                                *)

Frame(cols, n, consts) == [k |-> "df", cols |-> cols, n |-> n, consts |-> consts]

NoneDf == [k |-> "none"]

Min(a, b) == IF a <= b THEN a ELSE b

---------------------------------------------------------------------------
(* select, lines 135-167: the remote call and the post-processing           *)

\* what obb_function(**params).to_df() can do: raise, give None, or give a frame
\* indexed by timestamp with no rows or with two rows
RemoteOutcomes ==
    { [k |-> "raise", exc |-> Exc("Exception", <<"remote failure">>)],
      [k |-> "raise", exc |-> Exc("Exception", <<"Missing credential">>)],
      [k |-> "raise", exc |-> Exc("Exception", <<"Table not found">>)],
      [k |-> "raise", exc |-> Exc("ValidationError", <<"validation error">>)],
      [k |-> "raise", exc |-> Exc("AttributeError", <<"no attribute to_df">>)],
      [k |-> "df", df |-> NoneDf],
      [k |-> "df", df |-> [k |-> "df", index |-> "date", cols |-> <<"close">>, n |-> 0]],
      [k |-> "df", df |-> [k |-> "df", index |-> "date", cols |-> <<"close">>, n |-> 2]] }

\* what filter_dataframe can do with the rows: keep them, drop them, or fail
FilterOutcomes == {"keep", "drop", "raise"}

\* lines 137-138: the LIMIT clause as a remote parameter
WithLimit(params, limit) ==
    IF limit # NoneV /\ "limit" \in ParamNames THEN DictSet(params, "limit", limit)
    ELSE params

\* lines 148-149: a DatetimeIndex becomes the first column
ResetIndex(df) == Frame(<<df.index>> \o df.cols, df.n, EmptyDict)

\* lines 154-155: result.head(limit)
Head_(df, limit) == IF limit # NoneV THEN [df EXCEPT !.n = Min(@, limit.n)] ELSE df

\* lines 160-161: result[key] = params[key] for every staged key
RECURSIVE AddColumns(_, _, _)
AddColumns(df, keys, params) ==
    IF keys = <<>> THEN df
    ELSE LET key == Head(keys)
             added == [df EXCEPT
                          !.cols = IF InSeq(key, @) THEN @ ELSE Append(@, key),
                          !.consts = DictSet(@, key, params[key])]
         IN  AddColumns(added, Tail(keys), params)

\* filter_dataframe(result, filters)
FilterDataframe(df, filters, fo) ==
    CASE fo = "keep"  -> [exc |-> NoExc, df |-> df]
      [] fo = "drop"  -> [exc |-> NoExc, df |-> [df EXCEPT !.n = 0]]
      [] fo = "raise" -> [exc |-> Exc("Exception", <<"filter failure">>), df |-> NoneDf]

NoDataError == Exc("Exception", <<"For more information check", "func_docs">>)

\* lines 142-167, on what to_df() returned
PostProcess(raw, limit, columns_to_add, params, filters, fo) ==
    IF raw = NoneDf THEN [exc |-> NoDataError, df |-> NoneDf]
    ELSE LET indexed == ResetIndex(raw)
             limited == Head_(indexed, limit)
             added == AddColumns(limited, columns_to_add, params)
         IN  FilterDataframe(added, filters, fo)

\* lines 169-171: get_columns() hands out the list itself and += extends it
ExtendColumns(columns, result_cols) ==
    columns \o SelectSeq(result_cols, LAMBDA col : ~InSeq(col, columns))

---------------------------------------------------------------------------
(* select, lines 173-192: the target list                                   *)

Star == [t |-> "star"]
Identifier(name) == [t |-> "ident", name |-> name]
Function(arg) == [t |-> "func", arg |-> arg]
\* any other expression: a window function, an arithmetic operation, a constant
Other == [t |-> "other"]

\* lines 173-184, one target after the other
RECURSIVE CheckTargets(_, _)
CheckTargets(targets, columns) ==
    IF targets = <<>> THEN [k |-> "ok", exc |-> NoExc]
    ELSE LET full_target == Head(targets)
             rest == CheckTargets(Tail(targets), columns)
             unknown(target) ==
                 [k |-> "raise",
                  exc |-> Exc("ValueError", <<"Unknown column", target>>)]
         IN  CASE full_target.t = "star" -> rest
               [] full_target.t = "ident" ->
                      IF InSeq(full_target.name, columns) THEN rest
                      ELSE unknown(full_target.name)
               [] full_target.t = "func" ->
                      IF full_target.arg.t # "ident"
                      THEN [k |-> "raise",
                            exc |-> Exc("AttributeError", <<"no attribute parts">>)]
                      ELSE IF InSeq(full_target.arg.name, columns) THEN rest
                      ELSE unknown(full_target.arg.name)
               [] OTHER -> [k |-> "fallback", exc |-> NoExc]

\* project_dataframe(result, targets, columns)
ProjectDataframe(df, targets, columns) ==
    IF \E i \in 1..Len(targets) : targets[i].t \notin {"star", "ident"}
    THEN [exc |-> Exc("NotImplementedError", <<>>), df |-> NoneDf]
    ELSE IF \E i \in 1..Len(targets) : targets[i].t = "star"
    THEN [exc |-> NoExc, df |-> [df EXCEPT !.cols = columns]]
    ELSE [exc |-> NoExc,
          df |-> [df EXCEPT !.cols = [i \in 1..Len(targets) |-> targets[i].name]]]

\* lines 186-192: project, deferring to the fallback on NotImplementedError
\* the same without the except clause: the NotImplementedError propagates
ProjectTargetsUncaught(df, targets, columns) ==
    LET pr == ProjectDataframe(df, targets, columns)
    IN  IF pr.exc # NoExc THEN [k |-> "raise", df |-> NoneDf, exc |-> pr.exc]
        ELSE [k |-> "return", df |-> pr.df, exc |-> NoExc]

ProjectTargets(df, targets, columns) ==
    LET pr == ProjectDataframe(df, targets, columns)
    IN  IF pr.exc.type = "NotImplementedError"
        THEN [k |-> "fallback", df |-> NoneDf, exc |-> NoExc]
        ELSE IF pr.exc # NoExc THEN [k |-> "raise", df |-> NoneDf, exc |-> pr.exc]
        ELSE [k |-> "return", df |-> pr.df, exc |-> NoExc]

\* what the embedded engine can do with the rewritten query: answer or fail
FallbackOutcomes == {"answer", "raise"}

\* _select_dataframe(query, df), lines 47-59
SelectDataframe(targets, df, fbo) ==
    IF fbo = "answer"
    THEN [exc |-> NoExc, df |-> Frame(<<"duckdb">>, 1, EmptyDict)]
    ELSE [exc |-> Exc("Exception", <<"Binder Error">>), df |-> NoneDf]

\* the except clauses, lines 194-251: the exception that leaves select
Handle(e) ==
    IF e.type \in {"AttributeError", "ValidationError"}
    THEN Exc("Exception", e.msg \o Docstring)
    ELSE IF Contains(e.msg, "Table not found")
    THEN Exc("Exception", e.msg \o <<"Check if the method exists here:", "func_docs">>)
    ELSE IF Contains(e.msg, "Missing credential")
    THEN Exc("Exception", e.msg \o <<"Go to https://my.openbb.co/app/platform/api-keys">>)
    ELSE Exc("Exception", e.msg \o Docstring)

---------------------------------------------------------------------------
(* The queries select is called with                                        *)

DateOps == {"=", ">", "<", ">=", "<="}

\* the WHERE conditions a query is assembled from
CondPool ==
    { Cond("=", "symbol", Str("ABC")),
      Cond(">", "symbol", Str("ABC")),
      Cond("=", "date", Str("soon")),
      Cond("=", "date", DateLit(2023, 1, 1, 0)),
      Cond(">=", "date", DateLit(2023, 1, 1, 0)),
      Cond("=", "interval", Str("2d")),
      Cond("=", "foo", Str("x")),
      Cond("=", "strict_filter", BoolV(TRUE)),
      OrCond }
    \cup {Cond(op, "date", DateLit(2023, 5, 1, 0)) : op \in DateOps}

WhereClauses == SeqsUpTo(CondPool, MaxConds)

\* the LIMIT clause: absent, or LIMIT 1
Limits == {NoneV, IntV(1)}

\* the entries a SELECT target list is assembled from
TargetPool ==
    { Star, Identifier("close"), Identifier("foo"), Identifier("bogus"),
      Function(Identifier("close")), Function(Identifier("bogus")),
      Function(Star), Other }

TargetLists == SeqsUpTo(TargetPool, MaxTargets) \ {<<>>}

\* the one-entry target lists
SingleTargets == {<<t>> : t \in TargetPool}

\* WHERE clauses that pass the required-parameter check and reach the projection
PassingClauses ==
    { <<Cond("=", "symbol", Str("ABC"))>>,
      <<Cond(">", "symbol", Str("ABC"))>>,
      <<Cond("=", "symbol", Str("ABC")), Cond("=", "foo", Str("x"))>>,
      <<Cond("=", "symbol", Str("ABC")), Cond("=", "date", DateLit(2023, 5, 1, 0))>> }

\* the conditions the pushdown rules are exercised with: comparisons on the
\* temporal field, interval hints, and equalities on declared parameters
PushdownConds ==
    {Cond(op, "date", DateLit(2023, 5, 1, 0)) : op \in DateOps}
    \cup { Cond(">=", "date", DateLit(2023, 1, 1, 0)),
           Cond("=", "interval", Str("2d")),
           Cond("=", "interval", Str("12h")),
           Cond("=", "provider", Str("yfinance")),
           Cond("=", "start_date", DateLit(2023, 1, 1, 0)) }

\* WHERE clauses that give the required parameter and then up to MaxConds of
\* the conditions above
PushdownClauses ==
    {<<Cond("=", "symbol", Str("ABC"))>> \o w : w \in SeqsUpTo(PushdownConds, MaxConds)}

\* SELECT *
StarOnly == {<<Star>>}

---------------------------------------------------------------------------
(* The translator's state machine                                           *)

Return(df) == [k |-> "return", df |-> df, exc |-> NoExc]

Raise(e) == [k |-> "raise", df |-> NoneDf, exc |-> e]

IdleSel ==
    [st |-> "idle", conditions |-> <<>>, limit |-> NoneV, loop |-> LoopInit,
     remote_calls |-> <<>>, remote_out |-> NoneDf, result |-> NoneDf,
     columns_before |-> <<>>,
     targets |-> <<>>, fallback_calls |-> <<>>, fallback_out |-> NoneDf,
     out |-> Return(NoneDf)]

\* the call ends: what it read, what it passed to its collaborators, its outcome
Finish(call, columns) ==
    /\ sel' = [call EXCEPT !.st = "done"]
    /\ response_columns' = columns
    /\ UNCHANGED <<tbl, ad>>

\* line 182 and line 191: return self._select_dataframe(query, result)
Fallback(call, columns) ==
    \E fbo \in FallbackOutcomes :
        LET fb == SelectDataframe(call.targets, call.result, fbo)
            called == [call EXCEPT
                          !.fallback_calls =
                              Append(@, [targets |-> call.targets, df |-> call.result]),
                          !.fallback_out = fb.df]
        IN  IF fb.exc # NoExc
            THEN Finish([called EXCEPT !.out = Raise(Handle(fb.exc))], columns)
            ELSE Finish([called EXCEPT !.out = Return(fb.df)], columns)

\* lines 169-192: the columns, the target list, the projection
SelectTargets(call, lists) ==
    LET columns == ExtendColumns(response_columns, call.result.cols)
    IN  \E targets \in lists :
            LET read == [call EXCEPT !.targets = targets]
                chk == CheckTargets(targets, columns)
                prj == ProjectTargets(call.result, targets, columns)
            IN  CASE chk.k = "raise" ->
                        Finish([read EXCEPT !.out = Raise(Handle(chk.exc))], columns)
                  [] chk.k = "fallback" -> Fallback(read, columns)
                  [] prj.k = "fallback" -> Fallback(read, columns)
                  [] prj.k = "raise" ->
                        Finish([read EXCEPT !.out = Raise(Handle(prj.exc))], columns)
                  [] OTHER -> Finish([read EXCEPT !.out = Return(prj.df)], columns)

\* lines 135-167: the try block up to the filtered result
SelectRemote(call, lists) ==
    LET params == WithLimit(call.loop.params, call.limit)
        invoked == [call EXCEPT !.remote_calls = Append(@, params)]
    IN  \E ro \in RemoteOutcomes :
            IF ro.k = "raise"
            THEN Finish([invoked EXCEPT !.out = Raise(Handle(ro.exc))], response_columns)
            ELSE \E fo \in FilterOutcomes :
                     LET got == [invoked EXCEPT !.remote_out = ro.df]
                         pp == PostProcess(ro.df, call.limit, call.loop.columns_to_add,
                                           params, call.loop.filters, fo)
                     IN  IF pp.exc # NoExc
                         THEN Finish([got EXCEPT !.out = Raise(Handle(pp.exc))],
                                     response_columns)
                         ELSE SelectTargets([got EXCEPT !.result = pp.df], lists)

\* AnyTable.select(query), lines 61-251, for a query whose WHERE clause is one
\* of clauses and whose target list is one of lists
select(clauses, lists) ==
    /\ sel.st = "idle"
    /\ \E conditions \in clauses, limit \in Limits :
           LET arg_params == GetParamsFromConditions(conditions, EmptyDict)
               loop == ConditionsLoop(LoopInit, conditions, arg_params, response_columns)
               call == [IdleSel EXCEPT !.conditions = conditions, !.limit = limit,
                                       !.loop = loop,
                                       !.columns_before = response_columns]
           IN  IF loop.exc # NoExc
               THEN Finish([call EXCEPT !.out = Raise(loop.exc)], response_columns)
               ELSE IF MissingArgs(loop.mandatory_args_set) # <<>>
               THEN Finish([call EXCEPT !.out =
                                Raise(MissingArgsError(loop.mandatory_args_set))],
                           response_columns)
               ELSE SelectRemote(call, lists)

\* the caller has its answer; the call's locals are gone
SelectReturn ==
    /\ sel.st = "done"
    /\ sel' = IdleSel
    /\ UNCHANGED <<response_columns, tbl, ad>>

\* AnyTable.get_columns(), lines 253-254
get_columns == response_columns

---------------------------------------------------------------------------
(* The backend adapter: statements, the connector, the metrics sink         *)

\* the adapter's identity, set in __init__
ds_type == "postgres"
integration_name == "pg"

FloatV(t) == [k |-> "float", tenths |-> t]
NaN == [k |-> "nan"]

DropTables(if_exists) == [s |-> "drop", if_exists |-> if_exists]
CreateTable(columns) == [s |-> "create", columns |-> columns, is_replace |-> TRUE]
Insert(columns, values) == [s |-> "insert", columns |-> columns, values |-> values]
SelectStmt == [s |-> "select"]
NativeQuery == [s |-> "native"]

NoTable == [exists |-> FALSE, columns |-> <<>>, rows |-> <<>>]

\* the connector's responses
OkResp == [type |-> "OK", error_message |-> "", rows |-> <<>>]
TableResp(rows) == [type |-> "TABLE", error_message |-> "", rows |-> rows]
ErrorResp == [type |-> "ERROR", error_message |-> "backend said no", rows |-> <<>>]

\* the backend accepts the statement in this state of the table
CanApply(t, stmt) ==
    CASE stmt.s = "drop"   -> t.exists \/ stmt.if_exists
      [] stmt.s = "create" -> TRUE
      [] stmt.s = "insert" -> t.exists
      [] stmt.s = "select" -> t.exists
      [] OTHER             -> TRUE

\* the table once the backend has executed the statement
Apply(t, stmt) ==
    CASE stmt.s = "drop"   -> NoTable
      [] stmt.s = "create" ->
             [exists |-> TRUE, columns |-> stmt.columns, rows |-> <<>>]
      [] stmt.s = "insert" -> [t EXCEPT !.rows = @ \o stmt.values]
      [] OTHER             -> t

\* what the backend answers to a statement it executed
Answer(t, stmt) == IF stmt.s = "select" THEN TableResp(t.rows) ELSE OkResp

\* integration_handler.query can raise (with or without a message), answer
\* ERROR, or execute the statement
ConnectorOutcomes(t, stmt) ==
    {"raise", "raise_empty", "error"} \cup (IF CanApply(t, stmt) THEN {"ok"} ELSE {})

ConnectorExc(co) ==
    IF co = "raise" THEN Exc("ConnectionError", <<"connection lost">>)
    ELSE Exc("TimeoutError", <<>>)

\* the histogram's observe() records the duration or raises
MetricsOutcomes == {"recorded", "raise"}

MetricsExc == Exc("ValueError", <<"metrics sink unavailable">>)

\* what one adapter call has done so far
NewRun(op, t) ==
    [op |-> op, before |-> t, tbl |-> t, sent |-> <<>>, observed |-> <<>>,
     connector_raised |-> FALSE, metrics_failed |-> FALSE,
     resp |-> OkResp, exc |-> NoExc]

\* the timing and the histogram update of _query, lines 154-158
Observe(run, resp, mo) ==
    IF mo = "raise"
    THEN [run EXCEPT !.exc = MetricsExc, !.metrics_failed = TRUE]
    ELSE [run EXCEPT !.observed = Append(@, <<"handler", resp.type>>)]

\* _query(query) and _native_query(native_query), lines 151-167
Query_(run, stmt, co, mo) ==
    LET sent == [run EXCEPT !.sent = Append(@, stmt)]
    IN  IF co \in {"raise", "raise_empty"}
        THEN [sent EXCEPT !.exc = ConnectorExc(co), !.connector_raised = TRUE]
        ELSE LET resp == IF co = "error" THEN ErrorResp ELSE Answer(run.tbl, stmt)
                 done == [sent EXCEPT
                              !.resp = resp,
                              !.tbl = IF co = "ok" THEN Apply(@, stmt) ELSE @]
             IN  Observe(done, resp, mo)

\* the "[ds_type/integration_name]: " context of a DBHandlerException
Prefix == <<"[", ds_type, "/", integration_name, "]: ">>

DBHandlerException(msg) == Exc("DBHandlerException", Prefix \o msg)

\* raise Exception(result.error_message)
ResultError(resp) == Exc("Exception", <<resp.error_message>>)

---------------------------------------------------------------------------
(* create_table, lines 65-149                                               *)

\* result_set.columns: three numpy-typed columns and one that is not
ResultColumns ==
    << [alias |-> "a", type |-> "int64"],
       [alias |-> "b", type |-> "float64"],
       [alias |-> "c", type |-> "object"],
       [alias |-> "d", type |-> "unknown"] >>

\* the i-th record of a result set
Record(i) ==
    [a |-> IF i % 3 = 2 THEN Str("n/a") ELSE IntV(i),
     b |-> CASE i % 3 = 1 -> FloatV(10 * i + 5)
             [] i % 3 = 2 -> NaN
             [] OTHER     -> IntV(i),
     c |-> IF i % 2 = 1 THEN Str("x") ELSE IntV(7),
     d |-> NoneV]

\* the result sets create_table is called with: 0 to MaxRows records
ResultSets ==
    {[columns |-> ResultColumns, records |-> [i \in 1..n |-> Record(i)]] : n \in 0..MaxRows}

\* lines 74-79: the storage type inferred for a column
ColumnType(col) ==
    IF col.type \in {"int64", "float64", "object"}
    THEN IF col.type = "int64" THEN "Integer"
         ELSE IF col.type = "float64" THEN "Float"
         ELSE "Text"
    ELSE "Text"

\* lines 70-87: table_columns
TableColumns(result_set) ==
    [i \in 1..Len(result_set.columns) |->
        [name |-> result_set.columns[i].alias, type |-> ColumnType(result_set.columns[i])]]

\* int(value), float(value), str(value): the converted value, or no value on error
PythonType(column_type, value) ==
    CASE column_type = "Integer" ->
             CASE value.k = "int"   -> [ok |-> TRUE, v |-> value]
               [] value.k = "float" -> [ok |-> TRUE, v |-> IntV(value.tenths \div 10)]
               [] OTHER             -> [ok |-> FALSE, v |-> value]
      [] column_type = "Float" ->
             CASE value.k = "int"   -> [ok |-> TRUE, v |-> FloatV(10 * value.n)]
               [] value.k = "float" -> [ok |-> TRUE, v |-> value]
               [] value.k = "nan"   -> [ok |-> TRUE, v |-> value]
               [] OTHER             -> [ok |-> FALSE, v |-> value]
      [] OTHER ->
             CASE value.k = "str"   -> [ok |-> TRUE, v |-> value]
               [] value.k = "int"   -> [ok |-> TRUE, v |-> Str(ToString(value.n))]
               [] value.k = "float" ->
                      [ok |-> TRUE,
                       v |-> Str(ToString(value.tenths \div 10) \o "."
                                     \o ToString(value.tenths % 10))]
               [] value.k = "nan"   -> [ok |-> TRUE, v |-> Str("nan")]
               [] OTHER             -> [ok |-> FALSE, v |-> value]

\* lines 116-129: one value of the insert payload
Coerce(column_type, value) ==
    IF value = NoneV THEN value
    ELSE LET conv == PythonType(column_type, value)
         IN  IF conv.ok THEN conv.v ELSE value

\* the same payload cut down to the first record
FormattedDataFirstRow(result_set) ==
    [r \in 1..Min(1, Len(result_set.records)) |->
        [i \in 1..Len(result_set.columns) |->
            Coerce(ColumnType(result_set.columns[i]),
                   result_set.records[r][result_set.columns[i].alias])]]

\* lines 111-130: formatted_data
FormattedData(result_set) ==
    [r \in 1..Len(result_set.records) |->
        [i \in 1..Len(result_set.columns) |->
            Coerce(ColumnType(result_set.columns[i]),
                   result_set.records[r][result_set.columns[i].alias])]]

\* line 110: insert_columns
InsertColumns(result_set) ==
    [i \in 1..Len(result_set.columns) |-> result_set.columns[i].alias]

ReturnsNone == [k |-> "return", df |-> NoneV, exc |-> NoExc]

IdleAd ==
    [st |-> "idle", run |-> NewRun("none", NoTable), args |-> <<>>, out |-> ReturnsNone]

\* an adapter call ends: what it sent, what the backend holds, its outcome
FinishAd(run, args, out) ==
    /\ ad' = [st |-> "done", run |-> run, args |-> args, out |-> out]
    /\ tbl' = run.tbl
    /\ UNCHANGED <<response_columns, sel>>

\* lines 110-149: the insert
InsertStep(run, args) ==
    LET formatted_data == FormattedData(args.result_set)
        insert_ast == Insert(InsertColumns(args.result_set), formatted_data)
    IN  IF Len(formatted_data) = 0 THEN FinishAd(run, args, ReturnsNone)
        ELSE \E co \in ConnectorOutcomes(run.tbl, insert_ast), mo \in MetricsOutcomes :
                 LET r == Query_(run, insert_ast, co, mo)
                 IN  IF r.exc # NoExc
                     THEN FinishAd(r, args, Raise(DBHandlerException(r.exc.msg)))
                     ELSE IF r.resp.type = "ERROR"
                     THEN FinishAd(r, args, Raise(ResultError(r.resp)))
                     ELSE FinishAd(r, args, ReturnsNone)

\* lines 100-108: the create
CreateStep(run, args, is_create) ==
    IF ~is_create THEN InsertStep(run, args)
    ELSE LET create_table_ast == CreateTable(TableColumns(args.result_set))
         IN  \E co \in ConnectorOutcomes(run.tbl, create_table_ast),
                mo \in MetricsOutcomes :
                 LET r == Query_(run, create_table_ast, co, mo)
                 IN  IF r.exc # NoExc THEN FinishAd(r, args, Raise(r.exc))
                     ELSE IF r.resp.type = "ERROR"
                     THEN FinishAd(r, args, Raise(ResultError(r.resp)))
                     ELSE InsertStep(r, args)

\* the same step going on to the create whatever the drop answered
DropStepIgnoringError(run, args) ==
    IF ~args.is_replace THEN CreateStep(run, args, args.is_create)
    ELSE LET drop_ast == DropTables(TRUE)
         IN  \E co \in ConnectorOutcomes(run.tbl, drop_ast), mo \in MetricsOutcomes :
                 LET r == Query_(run, drop_ast, co, mo)
                 IN  IF r.exc # NoExc THEN FinishAd(r, args, Raise(r.exc))
                     ELSE CreateStep(r, args, TRUE)

\* lines 89-98: the drop of a replace
DropStep(run, args) ==
    IF ~args.is_replace THEN CreateStep(run, args, args.is_create)
    ELSE LET drop_ast == DropTables(TRUE)
         IN  \E co \in ConnectorOutcomes(run.tbl, drop_ast), mo \in MetricsOutcomes :
                 LET r == Query_(run, drop_ast, co, mo)
                 IN  IF r.exc # NoExc THEN FinishAd(r, args, Raise(r.exc))
                     ELSE IF r.resp.type = "ERROR"
                     THEN FinishAd(r, args, Raise(ResultError(r.resp)))
                     ELSE CreateStep(r, args, TRUE)

\* IntegrationDataNode.create_table(table_name, result_set, is_replace, is_create)
create_table ==
    /\ ad.st = "idle"
    /\ \E result_set \in ResultSets, is_replace \in BOOLEAN, is_create \in BOOLEAN :
           /\ Len(tbl.rows) + Len(result_set.records) <= MaxStored
           /\ DropStep(NewRun("create_table", tbl),
                       [result_set |-> result_set, is_replace |-> is_replace,
                        is_create |-> is_create])

\* IntegrationDataNode.drop_table(name, if_exists), lines 56-63
drop_table ==
    /\ ad.st = "idle"
    /\ \E if_exists \in BOOLEAN :
           LET drop_ast == DropTables(if_exists)
               args == [if_exists |-> if_exists]
               run == NewRun("drop_table", tbl)
           IN  \E co \in ConnectorOutcomes(tbl, drop_ast), mo \in MetricsOutcomes :
                   LET r == Query_(run, drop_ast, co, mo)
                   IN  IF r.exc # NoExc THEN FinishAd(r, args, Raise(r.exc))
                       ELSE IF r.resp.type = "ERROR"
                       THEN FinishAd(r, args, Raise(ResultError(r.resp)))
                       ELSE FinishAd(r, args, ReturnsNone)

\* lines 196 and 201: NaN becomes the missing-value marker
ClearNaN(rows) ==
    [r \in 1..Len(rows) |->
        [i \in 1..Len(rows[r]) |-> IF rows[r][i] = NaN THEN NoneV ELSE rows[r][i]]]

\* lines 178-181: the message of the DBHandlerException query raises
WrappedMessage(e) == IF e.msg = <<>> THEN <<e.type>> ELSE e.msg

\* IntegrationDataNode.query(query, native_query), lines 169-214
query ==
    /\ ad.st = "idle"
    /\ \E stmt \in {SelectStmt, NativeQuery} :
           LET args == [query |-> stmt]
               run == NewRun("query", tbl)
           IN  \E co \in ConnectorOutcomes(tbl, stmt), mo \in MetricsOutcomes :
                   LET r == Query_(run, stmt, co, mo)
                   IN  IF r.exc # NoExc
                       THEN FinishAd(r, args,
                                     Raise(DBHandlerException(WrappedMessage(r.exc))))
                       ELSE IF r.resp.type = "ERROR"
                       THEN FinishAd(r, args,
                                     Raise(Exc("Exception",
                                               <<"Error in ", integration_name, ": ",
                                                 r.resp.error_message>>)))
                       ELSE IF r.resp.type = "OK"
                       THEN FinishAd(r, args, Return(<<<<>>, <<>>>>))
                       ELSE FinishAd(r, args,
                                     Return(<<ClearNaN(r.resp.rows), r.tbl.columns>>))

\* IntegrationDataNode.get_tables(), lines 39-48
get_tables ==
    /\ ad.st = "idle"
    /\ \E co \in {"raise", "raise_empty", "error", "ok"} :
           LET run == NewRun("get_tables", tbl)
               args == <<>>
           IN  IF co \in {"raise", "raise_empty"}
               THEN FinishAd([run EXCEPT !.connector_raised = TRUE, !.exc = ConnectorExc(co)],
                             args, Raise(ConnectorExc(co)))
               ELSE IF co = "error"
               THEN FinishAd([run EXCEPT !.resp = ErrorResp], args,
                             Raise(Exc("Exception",
                                       <<"Can't get tables: ", ErrorResp.error_message>>)))
               ELSE FinishAd([run EXCEPT !.resp = TableResp(<<>>)], args,
                             Return(IF tbl.exists THEN <<"t">> ELSE <<>>))

\* the caller has its answer
AdapterReturn ==
    /\ ad.st = "done"
    /\ ad' = IdleAd
    /\ UNCHANGED <<response_columns, sel, tbl>>

---------------------------------------------------------------------------
(* Specifications                                                           *)

Init ==
    /\ response_columns = InitResponseColumns
    /\ sel = IdleSel
    /\ tbl = NoTable
    /\ ad = IdleAd

\* the translator, over every WHERE clause and every one-entry target list
Next == select(WhereClauses, SingleTargets) \/ SelectReturn

Spec == Init /\ [][Next]_vars

\* the translator, over every target list and the WHERE clauses that reach it
NextTargets == select(PassingClauses, TargetLists) \/ SelectReturn

SpecTargets == Init /\ [][NextTargets]_vars

\* the translator, over the WHERE clauses that exercise the pushdown rules
NextPushdown == select(PushdownClauses, StarOnly) \/ SelectReturn

SpecPushdown == Init /\ [][NextPushdown]_vars

\* the adapter
NextAdapter == create_table \/ drop_table \/ query \/ get_tables \/ AdapterReturn

SpecAdapter == Init /\ [][NextAdapter]_vars

---------------------------------------------------------------------------
(* Properties of the translator                                             *)

SelectDone == sel.st = "done"

\* the columns the target list was validated against
ValidationColumns == ExtendColumns(sel.columns_before, sel.result.cols)

\* the interval hint of the call, one day unless a condition says otherwise
IntervalOf(conditions) ==
    Timedelta(DictGet(GetParamsFromConditions(conditions, EmptyDict),
                      "interval", Str("1d")))

\* the only condition on the temporal field is conditions[i], an equality on a date
SoleDateEquality(conditions, i) ==
    /\ conditions[i].op = "="
    /\ conditions[i].arg1 = "date"
    /\ conditions[i].arg2.k = "datelit"
    /\ \A j \in 1..Len(conditions) : j # i => conditions[j].arg1 # "date"

\* C1: an "=" comparison on the temporal field date (which has the declared
\* parameter start_date) reaches the remote call as start_date = the literal's
\* date minus one interval and end_date = the literal's date plus one interval,
\* the interval being one day unless the query gives one.
C1_EqualityWindow ==
    \A i \in 1..Len(sel.conditions) :
        (SelectDone /\ sel.remote_calls # <<>> /\ SoleDateEquality(sel.conditions, i))
        => LET t == ParseLocalDate(sel.conditions[i].arg2).t
               delta == IntervalOf(sel.conditions).h
               params == sel.remote_calls[1]
           IN  /\ params["start_date"] = Strftime(t - delta)
               /\ params["end_date"] = Strftime(t + delta)

\* the required parameters the WHERE clause gives no "p = value" condition for
LackingEquality(conditions) ==
    {p \in Range(mandatory_fields) :
        ~\E i \in 1..Len(conditions) :
            conditions[i].op = "=" /\ conditions[i].arg1 = p}

\* C2: the remote function is invoked only if the WHERE clause has an equality
\* condition for every required parameter; a query that passes the scan of its
\* conditions and lacks one fails before any remote call with an error that
\* names each missing required parameter.
C2_RequiredGate ==
    (SelectDone /\ sel.loop.exc = NoExc)
    => LET lacking == LackingEquality(sel.conditions)
       IN  /\ sel.remote_calls # <<>> => lacking = {}
           /\ lacking # {} =>
                  /\ sel.out.k = "raise"
                  /\ sel.remote_calls = <<>>
                  /\ \A p \in lacking : Contains(sel.out.exc.msg, p)

HasOr(conditions) == InSeq(OrCond, conditions)

FirstOr(conditions) ==
    CHOOSE i \in 1..Len(conditions) :
        conditions[i] = OrCond /\ \A j \in 1..(i - 1) : conditions[j] # OrCond

\* a time-range comparison whose literal is no date or whose interval is no duration
TimeRangeFails(c, conditions) ==
    /\ c.arg1 = "date"
    /\ c.arg2 # NoneV
    /\ \/ ~ParseLocalDate(c.arg2).ok
       \/ UsesInterval(c.op) /\ ~IntervalOf(conditions).ok

C5_DescriptorImmutable == get_columns = InitResponseColumns

\* C6: every error select raises whose message contains neither 'Table not
\* found' nor 'Missing credential' carries the generated parameter
\* documentation: the disjunction error, the missing-required-parameter error,
\* the unknown-column error, and the failures of the remote call, of the
\* post-processing and of the fallback engine.
C6_ErrorsCarryDocs ==
    (/\ SelectDone
     /\ sel.out.k = "raise"
     /\ sel.loop.exc.type \in {"none", "NotImplementedError"}
     /\ ~Contains(sel.out.exc.msg, "Table not found")
     /\ ~Contains(sel.out.exc.msg, "Missing credential"))
    => HasRun(sel.out.exc.msg, Docstring)

\* the target is an identifier, or a function call over one, that names a known column
Resolves(target, columns) ==
    CASE target.t = "ident" -> InSeq(target.name, columns)
      [] target.t = "func"  -> target.arg.t = "ident" /\ InSeq(target.arg.name, columns)
      [] OTHER              -> TRUE

KnownFunction(target, columns) == target.t = "func" /\ Resolves(target, columns)

C10_UnknownColumn ==
    (/\ SelectDone
     /\ sel.targets # <<>>
     /\ \E i \in 1..Len(sel.targets) :
            /\ sel.targets[i].t = "ident"
            /\ ~InSeq(sel.targets[i].name, InitResponseColumns)
            /\ ~InSeq(sel.targets[i].name, sel.result.cols))
    => /\ sel.out.k = "raise"
       /\ Contains(sel.out.exc.msg, "Unknown column")
       /\ sel.fallback_calls = <<>>

---------------------------------------------------------------------------
(* Properties of the adapter                                                *)

AdapterDone == ad.st = "done"

RECURSIVE ApplyAll(_, _)
ApplyAll(t, stmts) ==
    IF stmts = <<>> THEN t ELSE ApplyAll(Apply(t, Head(stmts)), Tail(stmts))

CreateTableRaised ==
    AdapterDone /\ ad.run.op = "create_table" /\ ad.out.k = "raise"

\* C4 as claimed: when create_table raises, none of its statements has been
\* applied to the backend.
C4_CreateTableAtomic == CreateTableRaised => tbl = ad.run.before

\* C4 as amended: when create_table raises, every statement dispatched before
\* the failing one has been applied and stays applied; the failing statement
\* is not applied, unless what failed is the metrics update after the
\* connector executed it.
C4_PrefixApplied ==
    CreateTableRaised
    => LET n == Len(ad.run.sent)
           applied == IF ad.run.metrics_failed /\ ad.run.resp.type # "ERROR"
                      THEN n ELSE n - 1
       IN  /\ n >= 1
           /\ tbl = ApplyAll(ad.run.before, SubSeq(ad.run.sent, 1, applied))

\* a replace whose create fails leaves the table dropped
C4_Witness ==
    /\ CreateTableRaised
    /\ ad.args.is_replace
    /\ ad.run.before.exists
    /\ Len(ad.run.sent) = 2
    /\ ad.run.connector_raised
    /\ ~tbl.exists

\* C7: whenever the connector raises during an adapter operation, the error
\* leaving the adapter is a DBHandlerException whose message starts with
\* "[ds_type/integration_name]: ".
C7_ConnectorErrorsWrapped ==
    (AdapterDone /\ ad.run.connector_raised)
    => /\ ad.out.k = "raise"
       /\ ad.out.exc.type = "DBHandlerException"
       /\ Len(ad.out.exc.msg) >= Len(Prefix)
       /\ SubSeq(ad.out.exc.msg, 1, Len(Prefix)) = Prefix

\* C8: when recording the call duration fails after the connector returned
\* its result, the operation ends as that result determines: it raises only
\* if the result is an ERROR.
C8_MetricsNeverFatal ==
    (AdapterDone /\ ad.run.metrics_failed)
    => (ad.out.k = "raise" <=> ad.run.resp.type = "ERROR")

---------------------------------------------------------------------------
(* Properties of the pushdown rules                                         *)

\* a range comparison on the temporal field date with a date literal
IsRangeComparison(c) ==
    c.arg1 = "date" /\ c.op \in {">", "<", ">=", "<="} /\ c.arg2.k = "datelit"

\* the bound parameter a range comparison sets
BoundKey(op) == IF op \in {">", ">="} THEN "start_date" ELSE "end_date"

\* the value the bound is to have: the literal's calendar day, one interval
\* earlier for >=, one interval later for <=
BoundValue(op, t, delta) ==
    CASE op = ">=" -> Strftime(t - delta)
      [] op = "<=" -> Strftime(t + delta)
      [] OTHER     -> Strftime(t)

\* condition c assigns params[key] in the loop over the conditions
WritesKey(c, key) ==
    \/ /\ c.arg1 = "date"
       /\ c.arg2 # NoneV
       /\ \/ key = "start_date" /\ c.op \in {">", ">=", "="}
          \/ key = "end_date" /\ c.op \in {"<", "<=", "="}
    \/ c.arg1 = key /\ c.op = "="

\* no condition after conditions[i] assigns params[key]
LastWriter(conditions, i, key) ==
    \A j \in (i + 1)..Len(conditions) : ~WritesKey(conditions[j], key)

\* C11 as claimed: every range comparison on the temporal field date reaches
\* the remote call as its bound: > as start_date = the literal's date, < as
\* end_date = the literal's date, >= as start_date = the date minus one
\* interval, <= as end_date = the date plus one interval, at calendar-day
\* granularity, the interval being one day unless the query gives one.
C11_RangeBounds ==
    \A i \in 1..Len(sel.conditions) :
        (SelectDone /\ sel.remote_calls # <<>> /\ IsRangeComparison(sel.conditions[i]))
        => LET c == sel.conditions[i]
               params == sel.remote_calls[1]
           IN  /\ BoundKey(c.op) \in DOMAIN params
               /\ params[BoundKey(c.op)] =
                      BoundValue(c.op, ParseLocalDate(c.arg2).t,
                                 IntervalOf(sel.conditions).h)

\* C11 as amended: a range comparison on date reaches the remote call as its
\* bound (as above) when no later condition of the WHERE clause sets the same
\* parameter; of several conditions setting one bound the last one decides.
C11_RangeBoundsLastWins ==
    \A i \in 1..Len(sel.conditions) :
        (/\ SelectDone
         /\ sel.remote_calls # <<>>
         /\ IsRangeComparison(sel.conditions[i])
         /\ LastWriter(sel.conditions, i, BoundKey(sel.conditions[i].op)))
        => LET c == sel.conditions[i]
               params == sel.remote_calls[1]
           IN  /\ BoundKey(c.op) \in DOMAIN params
               /\ params[BoundKey(c.op)] =
                      BoundValue(c.op, ParseLocalDate(c.arg2).t,
                                 IntervalOf(sel.conditions).h)

\* date >= 2023-01-01 with the default interval went out as start_date = 2022-12-31
C11_Witness ==
    /\ SelectDone
    /\ sel.conditions = <<Cond("=", "symbol", Str("ABC")),
                          Cond(">=", "date", DateLit(2023, 1, 1, 0))>>
    /\ sel.remote_calls # <<>>
    /\ sel.remote_calls[1]["start_date"] = DateStr(2022, 12, 31)

---------------------------------------------------------------------------
(* Properties of create_table's statements                                  *)

CreateTableDone == AdapterDone /\ ad.run.op = "create_table"

\* the Insert statements the call sent to the connector
InsertsSent == SelectSeq(ad.run.sent, LAMBDA stmt : stmt.s = "insert")

\* the call ended at the drop or at the create, before the insert was due
EndedBeforeInsert ==
    /\ ad.out.k = "raise"
    /\ ad.run.sent # <<>>
    /\ ad.run.sent[Len(ad.run.sent)].s # "insert"

\* C12: create_table sends no Insert when the result set has no rows;
\* otherwise, once the drop and the create it was asked for have succeeded, it
\* sends exactly one Insert, whose value list has one tuple per record of the
\* result set, in record order, each tuple with one (coerced) value per column.
C12_OneBulkInsert ==
    CreateTableDone
    => LET records == ad.args.result_set.records
           columns == ad.args.result_set.columns
       IN  /\ Len(InsertsSent) <= 1
           /\ records = <<>> => InsertsSent = <<>>
           /\ (records # <<>> /\ ~EndedBeforeInsert) => Len(InsertsSent) = 1
           /\ \A k \in 1..Len(InsertsSent) :
                  LET values == InsertsSent[k].values
                  IN  /\ Len(values) = Len(records)
                      /\ \A r \in 1..Len(values) :
                             /\ Len(values[r]) = Len(columns)
                             /\ \A i \in 1..Len(columns) :
                                    values[r][i] =
                                        Coerce(ColumnType(columns[i]),
                                               records[r][columns[i].alias])

\* three records went out as one Insert of three tuples
C12_Witness ==
    /\ CreateTableDone
    /\ ad.out.k = "return"
    /\ Len(ad.args.result_set.records) = 3
    /\ Len(InsertsSent) = 1
    /\ Len(InsertsSent[1].values) = 3

---------------------------------------------------------------------------
(* Properties of the post-processing                                        *)

\* the rows left once the LIMIT clause has been applied to what to_df() gave
RowsAfterLimit == Head_(sel.remote_out, sel.limit).n

\* C13: when the remote call gives a frame without rows, or the LIMIT clause
\* applied locally leaves none, select raises instead of returning an empty
\* result.
C13_EmptyResultFails ==
    (SelectDone /\ sel.remote_out.k = "df" /\ RowsAfterLimit = 0)
    => sel.out.k = "raise"

---------------------------------------------------------------------------
(* Properties of the parameters, the filters and the constant columns       *)

\* C14: every remote call select makes carries provider = the value the
\* translator was built with, whatever the WHERE clause holds.
C14_ProviderFixed ==
    \A k \in 1..Len(sel.remote_calls) :
        /\ "provider" \in DOMAIN sel.remote_calls[k]
        /\ sel.remote_calls[k]["provider"] = provider

\* the strict_filter directive of the call, off unless a condition sets it
StrictFilterOf(conditions) ==
    Truthy(DictGet(GetParamsFromConditions(conditions, EmptyDict),
                   "strict_filter", BoolV(FALSE)))

\* the condition is on a response field that has a start_ parameter
OnRangeField(c, columns) ==
    /\ ("start_" \o c.arg1) \in ParamNames
    /\ InSeq(c.arg1, columns)
    /\ c.arg2 # NoneV

\* rule (a): the condition is translated into start_ / end_ parameters
ConsumedByTimeRange(c, columns) ==
    /\ OnRangeField(c, columns)
    /\ c.arg1 \in ResponseNames
    /\ Annotation(c.arg1) = "datetime"
    /\ c.op \in DateOps

\* rule (b): the condition is an equality passed on as a remote parameter
ConsumedByParameter(c, conditions, columns) ==
    /\ ~OnRangeField(c, columns)
    /\ c.op = "="
    /\ (c.arg1 \in ParamNames \/ ~StrictFilterOf(conditions))

\* the conditions neither rule consumes, in WHERE order
Unconsumed(conditions, columns) ==
    SelectSeq(conditions,
              LAMBDA c : /\ ~ConsumedByTimeRange(c, columns)
                         /\ ~ConsumedByParameter(c, conditions, columns))

\* C15: the local filters applied to the remote call's result are exactly the
\* conditions consumed neither by time-range pushdown nor by parameter
\* pushdown, verbatim and in WHERE order; a condition that became a remote
\* parameter is not applied again as a filter.
C15_FiltersAreTheUnconsumed ==
    (SelectDone /\ sel.remote_out.k = "df")
    => sel.loop.filters = Unconsumed(sel.conditions, sel.columns_before)

\* conditions[i] is the only equality of the WHERE clause on its left operand
SoleEquality(conditions, i) ==
    \A j \in 1..Len(conditions) :
        j # i => ~(conditions[j].op = "=" /\ conditions[j].arg1 = conditions[i].arg1)

\* C16: an equality that rule (b) consumes, the only one on its parameter,
\* has its value passed to the remote call under that name and attached to
\* the post-processed result as a constant column holding that value.
C16_EqualityPassedAndAttached ==
    \A i \in 1..Len(sel.conditions) :
        (/\ SelectDone
         /\ sel.result.k = "df"
         /\ ConsumedByParameter(sel.conditions[i], sel.conditions, sel.columns_before)
         /\ SoleEquality(sel.conditions, i))
        => LET c == sel.conditions[i]
               params == sel.remote_calls[1]
           IN  /\ c.arg1 \in DOMAIN params
               /\ params[c.arg1] = c.arg2
               /\ InSeq(c.arg1, sel.result.cols)
               /\ c.arg1 \in DOMAIN sel.result.consts
               /\ sel.result.consts[c.arg1] = c.arg2

---------------------------------------------------------------------------
(* Properties of the order of create_table's statements                     *)

\* the kinds of the statements the call sent, in the order it sent them
KindsSent == [i \in 1..Len(ad.run.sent) |-> ad.run.sent[i].s]

\* the kinds the flags and the result set call for: drop, create, insert
KindsDue(args) ==
    (IF args.is_replace THEN <<"drop">> ELSE <<>>)
    \o (IF args.is_replace \/ args.is_create THEN <<"create">> ELSE <<>>)
    \o (IF args.result_set.records # <<>> THEN <<"insert">> ELSE <<>>)

\* C17: create_table sends its statements in a fixed order, each at most
\* once: with is_replace a Drop with if_exists = true, then a Create, then the
\* Insert, whatever is_create; with only is_create a Create, then the Insert;
\* with neither flag only the Insert (an Insert being due when the result set
\* has rows). A later statement is sent only after every earlier one returned
\* a result other than ERROR, and a call that returns has sent them all.
C17_StatementOrder ==
    CreateTableDone
    => LET due == KindsDue(ad.args)
           n == Len(ad.run.sent)
       IN  /\ n <= Len(due)
           /\ KindsSent = SubSeq(due, 1, n)
           /\ \A i \in 1..n : ad.run.sent[i].s = "drop" => ad.run.sent[i].if_exists
           /\ \A i \in 1..(n - 1) :
                  /\ Len(ad.run.observed) >= i
                  /\ ad.run.observed[i][2] # "ERROR"
           /\ ad.out.k = "return" => n = Len(due)

\* a replace without is_create sent the drop, the create and the insert
C17_Witness ==
    /\ CreateTableDone
    /\ ad.args.is_replace
    /\ ~ad.args.is_create
    /\ ad.out.k = "return"
    /\ KindsSent = <<"drop", "create", "insert">>
    /\ ad.run.sent[1].if_exists

====
